---- MODULE Spec2Model ----
(***************************************************************************)
(* prettysize: the linker-script reducer process() of                      *)
(* prettysize_config_generator.py and the reporting stage of prettysize.py *)
(*                                                                         *)
(* A linker script is held as its stanzas in source order.  Each stanza    *)
(* keeps the tokens the grammar (ld_grammar) has to decide on: the LENGTH  *)
(* text of a region spec character by character, the number of body        *)
(* statements of a section definition and the tokens that follow its       *)
(* closing brace.  ORIGIN, attribute lists, load addresses and ALIGN are   *)
(* parsed by the grammar but never read by process(); the documents here   *)
(* carry well-formed ones and they are not represented.                    *)
(***************************************************************************)
EXTENDS Integers, Sequences, FiniteSets, TLC

VARIABLES
    text,           \* process(): the linker script, as stanza sources
    model,          \* process(): model.stanzas once mm.model_from_file returned
    memory_spaces,  \* process(): the dict under construction
    si,             \* process(): index of the stanza the outer for loop is at
    ii,             \* process(): index inside the stanza (inner for loop)
    pc,             \* process(): "start", "reduce", "done", "raised"
    raised,         \* process(): class name of the exception that ended it
    returned,       \* process(): the dict it returned (read when pc = "done")
    config,         \* __main__: the configuration, in dict iteration order
    output,         \* __main__: what get_output() gave
    show_all,       \* __main__: args.show_all
    entries,        \* SysV.entries
    li,             \* SysV.__init__: index of the line the for loop is at
    sections,       \* __main__: the list of Usage objects
    ri,             \* __main__: index of the region the for loop is at
    printed,        \* the lines print(format_sections(...)) wrote
    rpc,            \* __main__: "size", "sysv", "regions", "format", "done", "raised"
    rraised         \* __main__: class name of the exception that ended it

pvars == <<text, model, memory_spaces, si, ii, pc, raised, returned>>
rvars == <<config, output, show_all, entries, li, sections, ri, printed, rpc, rraised>>
vars == <<text, model, memory_spaces, si, ii, pc, raised, returned,
          config, output, show_all, entries, li, sections, ri, printed, rpc, rraised>>

(***************************************************************************)
(* Bounds of the model.                                                    *)
(***************************************************************************)
MaxItems == 3
MaxLitLen == 3
MaxSections == 2

(***************************************************************************)
(* Characters and numeric literals.                                        *)
(***************************************************************************)
DecDigit == {"0", "1", "2", "3", "4", "5", "6", "7", "8", "9"}
HexDigit == DecDigit \cup {"a", "b", "c", "d", "e", "f", "A", "B", "C", "D", "E", "F"}

DigitValue(c) ==
    CASE c = "0" -> 0 [] c = "1" -> 1 [] c = "2" -> 2 [] c = "3" -> 3
      [] c = "4" -> 4 [] c = "5" -> 5 [] c = "6" -> 6 [] c = "7" -> 7
      [] c = "8" -> 8 [] c = "9" -> 9
      [] c \in {"a", "A"} -> 10 [] c \in {"b", "B"} -> 11
      [] c \in {"c", "C"} -> 12 [] c \in {"d", "D"} -> 13
      [] c \in {"e", "E"} -> 14 [] c \in {"f", "F"} -> 15

\* The number of characters of s, from index i on, that a regex class+ takes.
RECURSIVE Run(_, _, _)
Run(s, i, class) ==
    IF i <= Len(s) /\ s[i] \in class THEN 1 + Run(s, i + 1, class) ELSE 0

AllIn(s, class) == \A i \in 1..Len(s) : s[i] \in class

\* Value of the digits s[i..j] read in the given base.
RECURSIVE DigitsValue(_, _, _, _)
DigitsValue(s, i, j, base) ==
    IF j < i THEN 0 ELSE DigitsValue(s, i, j - 1, base) * base + DigitValue(s[j])

\* Rule Hex: '0' ('x' | 'X') /[a-fA-F\d]+/ ; the number of characters matched
\* at the start of s, 0 when the rule does not match.
Hex(s) ==
    IF Len(s) >= 3 /\ s[1] = "0" /\ s[2] \in {"x", "X"} /\ s[3] \in HexDigit
    THEN 2 + Run(s, 3, HexDigit)
    ELSE 0

\* Rule HexOrNum: Hex | /\d+/ (ordered choice).
HexOrNum(s) == IF Hex(s) > 0 THEN Hex(s) ELSE Run(s, 1, DecDigit)

\* Rule Scale: 'M' | 'K', tried at index i of s; "" when absent.
Scale(s, i) == IF i <= Len(s) /\ s[i] \in {"M", "K"} THEN s[i] ELSE ""

\* Rule Size: amount=HexOrNum (scale=Scale)? ; rest is the text left over.
Size(s) ==
    LET n == HexOrNum(s)
        sc == Scale(s, n + 1)
        used == IF sc = "" THEN n ELSE n + 1
    IN  [ok |-> n > 0,
         amount |-> SubSeq(s, 1, n),
         scale |-> sc,
         rest |-> SubSeq(s, used + 1, Len(s))]

\* Python int(amount, 0) on a text the grammar let through: a 0x/0X prefix
\* selects base 16, otherwise base 10, where a leading 0 is only accepted
\* when every digit is 0.
IntBase0(amount) ==
    IF Hex(amount) > 0
    THEN [ok |-> TRUE, value |-> DigitsValue(amount, 3, Len(amount), 16)]
    ELSE IF Len(amount) > 1 /\ amount[1] = "0"
            /\ \E i \in 1..Len(amount) : amount[i] # "0"
    THEN [ok |-> FALSE, value |-> 0]
    ELSE [ok |-> TRUE, value |-> DigitsValue(amount, 1, Len(amount), 10)]

\* Decimal kilo and mega in place of the binary ones.
scale_to_multiplier_Decimal(scale) ==
    CASE scale = "K" -> 1000
      [] scale = "M" -> 1000 * 1000
      [] OTHER -> 1

scale_to_multiplier(scale) ==
    CASE scale = "K" -> 1024
      [] scale = "M" -> 1024 * 1024
      [] OTHER -> 1

(***************************************************************************)
(* The grammar, on the tokens of a stanza.                                 *)
(***************************************************************************)
\* What an unset textX attribute holds for a Location.
NoLocation == [present |-> FALSE, used |-> "", stored |-> ""]

\* Tokens the built-in ID rule matches, among the tokens documents use.
IsID(tok) == tok \notin {">", ":", "{", "}", "(", ")", "=", ";", ","}

\* A region spec that lets text after the size go by.
ParseMemorySpec_Lenient(src) ==
    LET sz == Size(src.length)
    IN  [ok |-> sz.ok,
         obj |-> [name |-> src.name,
                  length |-> [amount |-> sz.amount, scale |-> sz.scale]]]

\* Rule MemorySpec: ... 'LENGTH' '=' length=Size, followed by the next region
\* spec or the closing brace: text the Size rule leaves over matches neither.
\* (Region names here begin with no scale letter, which rule Scale would take
\* for the suffix of a LENGTH that has none.)
ParseMemorySpec(src) ==
    LET sz == Size(src.length)
    IN  [ok |-> sz.ok /\ sz.rest = <<>>,
         obj |-> [name |-> src.name,
                  length |-> [amount |-> sz.amount, scale |-> sz.scale]]]

\* Rule Location: used=ID 'AT' '>' stored=ID | stored=ID ; n is the number of
\* tokens matched, 0 when the rule does not match.
ParseLocation(toks) ==
    IF Len(toks) >= 4 /\ IsID(toks[1]) /\ toks[2] = "AT" /\ toks[3] = ">"
       /\ IsID(toks[4])
    THEN [n |-> 4, loc |-> [present |-> TRUE, used |-> toks[1], stored |-> toks[4]]]
    ELSE IF Len(toks) >= 1 /\ IsID(toks[1])
    THEN [n |-> 1, loc |-> [present |-> TRUE, used |-> "", stored |-> toks[1]]]
    ELSE [n |-> 0, loc |-> NoLocation]

\* Rule Section: Provide | name=Id ... '{' Definition+ '}' ('>' location=Location)?
\* | Assignment.  Definition+ needs a body statement; tokens left after the
\* optional placement start no further Section and are not the closing brace.
ParseSection(src) ==
    IF src.form \in {"provide", "assign"}
    THEN [ok |-> TRUE, obj |-> [name |-> "", location |-> NoLocation]]
    ELSE LET pl == IF Len(src.tail) >= 1 /\ src.tail[1] = ">"
                   THEN ParseLocation(Tail(src.tail))
                   ELSE [n |-> 0, loc |-> NoLocation]
             taken == IF pl.n > 0 THEN pl.n + 1 ELSE 0
         IN  [ok |-> src.body >= 1 /\ taken = Len(src.tail),
              obj |-> [name |-> src.name, location |-> pl.loc]]

\* cname(stanza) for each stanza keyword: Memory, Sections and Entry build
\* objects, the other stanza rules are match rules and yield a str (a comment
\* that textX skips as white space yields no stanza at all, which the loop
\* cannot tell from one it passes over).
ClassOf(kw) ==
    CASE kw = "MEMORY" -> "Memory"
      [] kw = "SECTIONS" -> "Sections"
      [] kw = "ENTRY" -> "Entry"
      [] OTHER -> "str"

\* Rules Memory (memory_spec+=MemorySpec) and Sections (sections*=Section).
ParseStanza(src) ==
    LET specs == [i \in 1..Len(src.specs) |-> ParseMemorySpec(src.specs[i])]
        secs == [i \in 1..Len(src.secs) |-> ParseSection(src.secs[i])]
    IN  [ok |-> /\ \A i \in 1..Len(specs) : specs[i].ok
                /\ \A i \in 1..Len(secs) : secs[i].ok
                /\ (src.kw = "MEMORY" => Len(src.specs) >= 1),
         obj |-> [cls |-> ClassOf(src.kw),
                  memory_spec |-> [i \in 1..Len(specs) |-> specs[i].obj],
                  sections |-> [i \in 1..Len(secs) |-> secs[i].obj]]]

\* Rule File: stanzas*=Stanza, through mm.model_from_file: all or nothing.
ParseFile(doc) ==
    LET st == [i \in 1..Len(doc) |-> ParseStanza(doc[i])]
    IN  [ok |-> \A i \in 1..Len(st) : st[i].ok,
         stanzas |-> [i \in 1..Len(st) |-> st[i].obj]]

(***************************************************************************)
(* process(): the reduction.                                               *)
(***************************************************************************)
EmptyDict == << >>

DictSet(d, k, v) == [x \in (DOMAIN d) \cup {k} |-> IF x = k THEN v ELSE d[x]]

\* The name put in front of the list instead of at its end.
AppendSection_Prepend(ms, region, name) ==
    [ms EXCEPT ![region] = [@ EXCEPT !.sections = <<name>> \o @]]

\* memory_spaces[region]['sections'] += [name]
AppendSection(ms, region, name) ==
    [ms EXCEPT ![region] = [@ EXCEPT !.sections = Append(@, name)]]

\* A declaration that only sets the size of a region it already knows.
DeclareRegion_KeepSections(ms, spec) ==
    LET v == IntBase0(spec.length.amount)
        size == v.value * scale_to_multiplier(spec.length.scale)
    IN  IF ~v.ok
        THEN [exc |-> "ValueError", ms |-> ms]
        ELSE [exc |-> "",
              ms |-> IF spec.name \in DOMAIN ms
                     THEN [ms EXCEPT ![spec.name].size = size]
                     ELSE DictSet(ms, spec.name, [size |-> size, sections |-> <<>>])]

\* Lines 114-117: the body of the loop over stanza.memory_spec.
DeclareRegion(ms, spec) ==
    LET v == IntBase0(spec.length.amount)
    IN  IF ~v.ok
        THEN [exc |-> "ValueError", ms |-> ms]
        ELSE [exc |-> "",
              ms |-> DictSet(ms, spec.name,
                             [size |-> v.value * scale_to_multiplier(spec.length.scale),
                              sections |-> <<>>])]

\* A placement that forgets the used region.
PlaceSection_StoredOnly(ms, section) ==
    IF ~section.location.present
    THEN [exc |-> "", ms |-> ms]
    ELSE IF section.location.stored \notin DOMAIN ms
    THEN [exc |-> "KeyError", ms |-> ms]
    ELSE [exc |-> "",
          ms |-> AppendSection(ms, section.location.stored, section.name)]

\* A placement that passes over regions the table does not hold.
PlaceSection_SkipUnknown(ms, section) ==
    LET ms1 == IF section.location.stored \in DOMAIN ms
               THEN AppendSection(ms, section.location.stored, section.name)
               ELSE ms
    IN  [exc |-> "",
         ms |-> IF section.location.used \in DOMAIN ms1
                THEN AppendSection(ms1, section.location.used, section.name)
                ELSE ms1]

\* A placement that reads the location without testing that there is one.
PlaceSection_NoGuard(ms, section) ==
    IF ~section.location.present
    THEN [exc |-> "AttributeError", ms |-> ms]
    ELSE IF section.location.stored \notin DOMAIN ms
    THEN [exc |-> "KeyError", ms |-> ms]
    ELSE LET ms1 == AppendSection(ms, section.location.stored, section.name)
         IN  IF section.location.used = ""
             THEN [exc |-> "", ms |-> ms1]
             ELSE IF section.location.used \notin DOMAIN ms1
             THEN [exc |-> "KeyError", ms |-> ms1]
             ELSE [exc |-> "",
                   ms |-> AppendSection(ms1, section.location.used, section.name)]

\* Lines 120-123: the body of the loop over stanza.sections.
PlaceSection(ms, section) ==
    IF ~section.location.present
    THEN [exc |-> "", ms |-> ms]
    ELSE IF section.location.stored \notin DOMAIN ms
    THEN [exc |-> "KeyError", ms |-> ms]
    ELSE LET ms1 == AppendSection(ms, section.location.stored, section.name)
         IN  IF section.location.used = ""
             THEN [exc |-> "", ms |-> ms1]
             ELSE IF section.location.used \notin DOMAIN ms1
             THEN [exc |-> "KeyError", ms |-> ms1]
             ELSE [exc |-> "",
                   ms |-> AppendSection(ms1, section.location.used, section.name)]

\* A stanza that matches no case of the match statement, or whose inner loop
\* has nothing to iterate over.
OtherStanza(ms) == ms

Elements(stanza) ==
    CASE stanza.cls = "Memory" -> stanza.memory_spec
      [] stanza.cls = "Sections" -> stanza.sections
      [] OTHER -> <<>>

AtStanza == pc = "reduce" /\ si <= Len(model)

\* Move the two for loops on by one element.
Advance ==
    IF ii < Len(Elements(model[si]))
    THEN si' = si /\ ii' = ii + 1
    ELSE si' = si + 1 /\ ii' = 1

ModelFromFile ==
    /\ pc = "start"
    /\ LET p == ParseFile(text)
       IN  IF p.ok
           THEN /\ model' = p.stanzas
                /\ pc' = "reduce"
                /\ raised' = raised
           ELSE /\ model' = model
                /\ pc' = "raised"
                /\ raised' = "TextXSyntaxError"
    /\ UNCHANGED <<text, memory_spaces, si, ii, returned>>
    /\ UNCHANGED rvars

Finish(r) ==
    /\ memory_spaces' = r.ms
    /\ IF r.exc = ""
       THEN Advance /\ pc' = pc /\ raised' = raised
       ELSE si' = si /\ ii' = ii /\ pc' = "raised" /\ raised' = r.exc
    /\ UNCHANGED <<text, model, returned>>
    /\ UNCHANGED rvars

ReduceMemorySpec ==
    /\ AtStanza
    /\ model[si].cls = "Memory"
    /\ ii <= Len(model[si].memory_spec)
    /\ Finish(DeclareRegion(memory_spaces, model[si].memory_spec[ii]))

ReduceSection ==
    /\ AtStanza
    /\ model[si].cls = "Sections"
    /\ ii <= Len(model[si].sections)
    /\ Finish(PlaceSection(memory_spaces, model[si].sections[ii]))

SkipStanza ==
    /\ AtStanza
    /\ Elements(model[si]) = <<>>
    /\ memory_spaces' = OtherStanza(memory_spaces)
    /\ si' = si + 1
    /\ ii' = 1
    /\ UNCHANGED <<text, model, pc, raised, returned>>
    /\ UNCHANGED rvars

Return ==
    /\ pc = "reduce"
    /\ si > Len(model)
    /\ returned' = memory_spaces
    /\ pc' = "done"
    /\ UNCHANGED <<text, model, memory_spaces, si, ii, raised>>
    /\ UNCHANGED rvars

Process == ModelFromFile \/ ReduceMemorySpec \/ ReduceSection \/ SkipStanza \/ Return

(***************************************************************************)
(* prettysize.py: the reporting stage, from get_output() to the print.     *)
(* A line of the size tool is held as what the tool wrote: the form of the *)
(* line and, for the line of a section, its name and size.  A printed line *)
(* is held as the region name and the two byte counts that                 *)
(* format_available_bytes() renders; the bar, the percentage and the       *)
(* padding are not represented.  --verbose only echoes the tool's output   *)
(* and is left out.                                                        *)
(***************************************************************************)
Letter ==
    {"a", "b", "c", "d", "e", "f", "g", "h", "i", "j", "k", "l", "m",
     "n", "o", "p", "q", "r", "s", "t", "u", "v", "w", "x", "y", "z"}

\* The class [.\w] of section_pattern and the class [.\w\d_-] of rule Id,
\* with the lower-case letters standing for all letters.
SysVNameChar == Letter \cup DecDigit \cup {"_", "."}
IdChar == Letter \cup DecDigit \cup {"_", ".", "-"}

\* The characters of the section names in use.
Spelling(n) ==
    CASE n = ".text" -> <<".", "t", "e", "x", "t">>
      [] n = ".data" -> <<".", "d", "a", "t", "a">>
      [] n = ".build-id" -> <<".", "b", "u", "i", "l", "d", "-", "i", "d">>

\* regex_section.match(line): ([.\w]+)\s+(\d+)\s+(\d+) from the start of the
\* line.  The name has to be taken whole for the white space to follow; the
\* file line, the column header and the Total line have no two numbers.
section_pattern(line) ==
    /\ line.form = "section"
    /\ Run(Spelling(line.name), 1, SysVNameChar) = Len(Spelling(line.name))

\* Lines 66-75: the body of the loop over output.splitlines().
SysVLine(ent, line) ==
    IF section_pattern(line) THEN DictSet(ent, line.name, line.size) ELSE ent

\* Lines 235-238: the total of one region.
RECURSIVE RegionTotal(_, _)
RegionTotal(secs, ent) ==
    IF secs = <<>> THEN 0
    ELSE (IF Head(secs) \in DOMAIN ent THEN ent[Head(secs)] ELSE 0)
         + RegionTotal(Tail(secs), ent)

\* Lines 234-239: the body of the loop over config.items().
RegionUsage(usages, region, ent) ==
    IF region.sections # <<>>
    THEN Append(usages, [name |-> region.name,
                         total |-> RegionTotal(region.sections, ent),
                         max |-> region.size])
    ELSE usages

\* format_sections(): one line per Usage that passes the filter;
\* format_available_bytes() divides by the maximum.
RECURSIVE format_sections(_, _)
format_sections(usages, all) ==
    IF usages = <<>> THEN [exc |-> "", lines |-> <<>>]
    ELSE LET u == Head(usages)
             rest == format_sections(Tail(usages), all)
         IN  IF all \/ u.total # 0
             THEN IF u.max = 0
                  THEN [exc |-> "ZeroDivisionError", lines |-> <<>>]
                  ELSE [exc |-> rest.exc,
                        lines |-> IF rest.exc = ""
                                  THEN <<[name |-> u.name, value |-> u.total,
                                          total |-> u.max]>> \o rest.lines
                                  ELSE <<>>]
             ELSE rest

SectionNames == {".text", ".data"}
RegionNames == {"FLASH", "RAM"}

\* The sections of the file handed to the size tool, and the sizes they have.
ToolSections == {".text", ".build-id"}
SizeValues == {0, 3, 5}
Absent == 0 - 1

\* What size -A -d prints for one file: the file line, the column header, a
\* line per section the file has, the total.
SectionLines(rep) ==
    (IF rep[".text"] # Absent
     THEN <<[form |-> "section", name |-> ".text", size |-> rep[".text"]]>> ELSE <<>>)
    \o (IF rep[".build-id"] # Absent
        THEN <<[form |-> "section", name |-> ".build-id", size |-> rep[".build-id"]]>>
        ELSE <<>>)

SizeOutput(rep) ==
    <<[form |-> "file", name |-> "", size |-> 0],
      [form |-> "header", name |-> "", size |-> 0]>>
    \o SectionLines(rep)
    \o <<[form |-> "total", name |-> "", size |-> 0]>>

\* get_output(): None when the tool exits with an error, else its output.
Outputs ==
    {[ok |-> FALSE, lines |-> <<>>]}
    \cup {[ok |-> TRUE, lines |-> SizeOutput(rep)] :
            rep \in [ToolSections -> SizeValues \cup {Absent}]}

GetOutput ==
    /\ rpc = "size"
    /\ \E o \in Outputs :
         /\ output' = o
         /\ IF o.ok
            THEN rpc' = "sysv" /\ rraised' = rraised
            ELSE rpc' = "raised" /\ rraised' = "AttributeError"
    /\ UNCHANGED <<config, show_all, entries, li, sections, ri, printed>>
    /\ UNCHANGED pvars

SysVInit ==
    /\ rpc = "sysv"
    /\ IF li <= Len(output.lines)
       THEN /\ entries' = SysVLine(entries, output.lines[li])
            /\ li' = li + 1
            /\ rpc' = rpc
       ELSE /\ rpc' = "regions"
            /\ UNCHANGED <<entries, li>>
    /\ UNCHANGED <<config, output, show_all, sections, ri, printed, rraised>>
    /\ UNCHANGED pvars

SummarizeRegion ==
    /\ rpc = "regions"
    /\ ri <= Len(config)
    /\ sections' = RegionUsage(sections, config[ri], entries)
    /\ ri' = ri + 1
    /\ UNCHANGED <<config, output, show_all, entries, li, printed, rpc, rraised>>
    /\ UNCHANGED pvars

PrintSections ==
    /\ rpc = "regions"
    /\ ri > Len(config)
    /\ LET f == format_sections(sections, show_all)
       IN  IF f.exc = ""
           THEN printed' = f.lines /\ rpc' = "done" /\ rraised' = rraised
           ELSE printed' = printed /\ rpc' = "raised" /\ rraised' = f.exc
    /\ UNCHANGED <<config, output, show_all, entries, li, sections, ri>>
    /\ UNCHANGED pvars

Report == GetOutput \/ SysVInit \/ SummarizeRegion \/ PrintSections

(***************************************************************************)
(* Documents.                                                              *)
(***************************************************************************)
NoSpec == [name |-> "", length |-> <<>>]
NoSec == [form |-> "", name |-> "", body |-> 0, tail |-> <<>>]

SpecSrc(name, length) == [name |-> name, length |-> length]
SecDef(name, body, tail) == [form |-> "def", name |-> name, body |-> body, tail |-> tail]

MemoryItem(spec) == [kw |-> "MEMORY", spec |-> spec, sec |-> NoSec]
SectionsItem(sec) == [kw |-> "SECTIONS", spec |-> NoSpec, sec |-> sec]
OtherItem(kw) == [kw |-> kw, spec |-> NoSpec, sec |-> NoSec]

\* The stanzas a sequence of items stands for: neighbouring region specs share
\* one MEMORY block, neighbouring sections one SECTIONS block.
RECURSIVE Group(_)
Group(items) ==
    IF items = <<>> THEN <<>>
    ELSE LET n == Len(items)
             it == items[n]
             before == Group(SubSeq(items, 1, n - 1))
             m == Len(before)
         IN  IF m > 0 /\ before[m].kw = it.kw /\ it.kw = "MEMORY"
             THEN [before EXCEPT ![m].specs = Append(@, it.spec)]
             ELSE IF m > 0 /\ before[m].kw = it.kw /\ it.kw = "SECTIONS"
             THEN [before EXCEPT ![m].secs = Append(@, it.sec)]
             ELSE Append(before,
                         [kw |-> it.kw,
                          specs |-> IF it.kw = "MEMORY" THEN <<it.spec>> ELSE <<>>,
                          secs |-> IF it.kw = "SECTIONS" THEN <<it.sec>> ELSE <<>>])

Placements ==
    {<<>>} \cup {<<">", r>> : r \in RegionNames}
           \cup {<<">", "RAM", "AT", ">", "FLASH">>, <<">", "FLASH", "AT", ">", "RAM">>,
                 <<">", "FLASH", "AT", ">", "FLASH">>}

Items ==
    {MemoryItem(SpecSrc(r, l)) : r \in RegionNames, l \in {<<"1">>, <<"2">>}}
    \cup {SectionsItem(SecDef(s, 1, t)) : s \in SectionNames, t \in Placements}
    \cup {SectionsItem([NoSec EXCEPT !.form = f]) : f \in {"provide", "assign"}}
    \cup {OtherItem(kw) : kw \in {"ENTRY", "OUTPUT_FORMAT", "OUTPUT_ARCH", "ASSIGN", "COMMENT"}}

ProcessStart(doc) ==
    /\ text = doc
    /\ model = <<>>
    /\ memory_spaces = EmptyDict
    /\ si = 1
    /\ ii = 1
    /\ pc = "start"
    /\ raised = ""
    /\ returned = EmptyDict

ReportIdle ==
    /\ config = <<>>
    /\ output = [ok |-> FALSE, lines |-> <<>>]
    /\ show_all = FALSE
    /\ entries = EmptyDict
    /\ li = 1
    /\ sections = <<>>
    /\ ri = 1
    /\ printed = <<>>
    /\ rpc = "idle"
    /\ rraised = ""

Init ==
    /\ \E n \in 0..MaxItems : \E items \in [1..n -> Items] : ProcessStart(Group(items))
    /\ ReportIdle

\* One region spec with an arbitrary LENGTH text, alone or followed by an
\* ENTRY stanza and a section placed in the region.
LitChars == {"0", "1", "x", "X", "F", "K", "M", "Q"}

Literals == UNION {[1..n -> LitChars] : n \in 1..MaxLitLen}

SizeFollowers ==
    {<<>>, <<OtherItem("ENTRY"), SectionsItem(SecDef(".text", 1, <<">", "RAM">>))>>}

InitSize ==
    /\ \E l \in Literals : \E f \in SizeFollowers :
          ProcessStart(Group(<<MemoryItem(SpecSrc("RAM", l))>> \o f))
    /\ ReportIdle

\* The end-to-end script of the specification and its neighbours: FLASH of
\* 512K and RAM of 128K, .text placed in FLASH, .data placed by dataTail,
\* bodies with or without a statement, an ENTRY stanza possibly put in.
InsertAt(seq, p, x) ==
    IF p = 0 THEN seq ELSE SubSeq(seq, 1, p - 1) \o <<x>> \o SubSeq(seq, p, Len(seq))

E2EItems(textBody, dataBody, dataTail) ==
    <<MemoryItem(SpecSrc("FLASH", <<"5", "1", "2", "K">>)),
      MemoryItem(SpecSrc("RAM", <<"1", "2", "8", "K">>)),
      SectionsItem(SecDef(".text", textBody, <<">", "FLASH">>)),
      SectionsItem(SecDef(".data", dataBody, dataTail))>>

E2EDoc(textBody, dataBody, dataTail, entryAt) ==
    Group(InsertAt(E2EItems(textBody, dataBody, dataTail), entryAt, OtherItem("ENTRY")))

\* '.data : { } AT> FLASH > RAM', the placement as the specification writes it.
TailAsWritten == <<"AT", ">", "FLASH", ">", "RAM">>
\* The grammar's load-at form, rule Location: used=ID 'AT' '>' stored=ID.
TailLoadAt == {<<">", "RAM", "AT", ">", "FLASH">>, <<">", "FLASH", "AT", ">", "RAM">>}

E2ETails == {TailAsWritten, <<">", "RAM">>, <<">", "FLASH">>} \cup TailLoadAt

InitE2E ==
    /\ \E tb \in 0..1 : \E db \in 0..1 : \E t \in E2ETails : \E p \in 0..5 :
          ProcessStart(E2EDoc(tb, db, t, p))
    /\ ReportIdle

\* The configurations process() can hand to the reporting stage: regions
\* under distinct names, each with a size and a list of names that rule Id
\* takes as section names.
IdNames == {n \in ToolSections : AllIn(Spelling(n), IdChar)}
SectionLists == UNION {[1..n -> IdNames] : n \in 0..MaxSections}
RegionSizes == {0, 16}

Configs ==
    {<<>>}
    \cup {<<[name |-> r, size |-> z, sections |-> l]>> :
            r \in RegionNames, z \in RegionSizes, l \in SectionLists}
    \cup {<<[name |-> "FLASH", size |-> z1, sections |-> l1],
            [name |-> "RAM", size |-> z2, sections |-> l2]>> :
            z1 \in RegionSizes, z2 \in RegionSizes,
            l1 \in SectionLists, l2 \in SectionLists}

ProcessIdle ==
    /\ text = <<>>
    /\ model = <<>>
    /\ memory_spaces = EmptyDict
    /\ si = 1
    /\ ii = 1
    /\ pc = "idle"
    /\ raised = ""
    /\ returned = EmptyDict

InitReport ==
    /\ ProcessIdle
    /\ config \in Configs
    /\ show_all \in BOOLEAN
    /\ output = [ok |-> FALSE, lines |-> <<>>]
    /\ entries = EmptyDict
    /\ li = 1
    /\ sections = <<>>
    /\ ri = 1
    /\ printed = <<>>
    /\ rpc = "size"
    /\ rraised = ""

Next == Process

Spec == Init /\ [][Next]_vars
SpecSize == InitSize /\ [][Next]_vars
SpecE2E == InitE2E /\ [][Next]_vars
SpecReport == InitReport /\ [][Report]_vars

(***************************************************************************)
(* Reading a run of process() back: the elements in the order the two for  *)
(* loops visit them, and what the source says about each.                  *)
(***************************************************************************)
ElementsOf(stanza) ==
    CASE stanza.cls = "Memory" ->
           [i \in 1..Len(stanza.memory_spec) |->
              [k |-> "spec", name |-> stanza.memory_spec[i].name,
               length |-> stanza.memory_spec[i].length, loc |-> NoLocation]]
      [] stanza.cls = "Sections" /\ stanza.sections # <<>> ->
           [i \in 1..Len(stanza.sections) |->
              [k |-> "section", name |-> stanza.sections[i].name,
               length |-> [amount |-> <<>>, scale |-> ""],
               loc |-> stanza.sections[i].location]]
      [] OTHER ->
           <<[k |-> "other", name |-> "", length |-> [amount |-> <<>>, scale |-> ""],
              loc |-> NoLocation]>>

RECURSIVE FlatOf(_)
FlatOf(stanzas) ==
    IF stanzas = <<>> THEN <<>>
    ELSE FlatOf(SubSeq(stanzas, 1, Len(stanzas) - 1)) \o ElementsOf(stanzas[Len(stanzas)])

Flat == FlatOf(model)

\* How many elements the loops have finished.
Visited ==
    IF pc = "done" THEN Len(Flat)
    ELSE IF pc = "reduce" \/ (pc = "raised" /\ raised # "TextXSyntaxError")
    THEN Len(FlatOf(SubSeq(model, 1, si - 1))) + (ii - 1)
    ELSE 0

\* The element the loops are about to handle.
AtElement == AtStanza
Current == Flat[Visited + 1]

IsPlaced(e) == e.k = "section" /\ e.loc.present
IsSimple(e) == IsPlaced(e) /\ e.loc.used = ""
IsLoadAt(e) == IsPlaced(e) /\ e.loc.used # ""
Declares(e, r) == e.k = "spec" /\ e.name = r

RECURSIVE Count(_, _)
Count(x, seq) ==
    IF seq = <<>> THEN 0 ELSE (IF Head(seq) = x THEN 1 ELSE 0) + Count(x, Tail(seq))

\* What the source asks element e to add to region r's list.
Contribution(e, r) ==
    IF ~IsPlaced(e) THEN <<>>
    ELSE (IF e.loc.stored = r THEN <<e.name>> ELSE <<>>)
         \o (IF e.loc.used = r THEN <<e.name>> ELSE <<>>)

\* Index of the last declaration of r among the first n elements, 0 if none.
LastDeclared(flat, n, r) ==
    LET at == {i \in 1..n : Declares(flat[i], r)}
    IN  IF at = {} THEN 0 ELSE CHOOSE i \in at : \A j \in at : j <= i

\* The placements into r among elements from..to, in source order.
RECURSIVE PlacedIn(_, _, _, _)
PlacedIn(flat, from, to, r) ==
    IF to < from THEN <<>>
    ELSE PlacedIn(flat, from, to - 1, r) \o Contribution(flat[to], r)

\* The value a LENGTH declares: its digits in the base its prefix selects,
\* times 1024 for K and 1024 * 1024 for M.
DeclaredSize(length) ==
    LET a == length.amount
        hex == Len(a) >= 3 /\ a[2] \in {"x", "X"}
        digits == IF hex THEN SubSeq(a, 3, Len(a)) ELSE a
        base == IF hex THEN 16 ELSE 10
        mult == IF length.scale = "K" THEN 1024
                ELSE IF length.scale = "M" THEN 1048576 ELSE 1
    IN  DigitsValue(digits, 1, Len(digits), base) * mult

(***************************************************************************)
(* Claims about process().                                                 *)
(***************************************************************************)

\* C2 (as stated): every section definition with a simple placement > R, R
\* not declared again afterwards, has its name exactly once in R's list of the
\* returned table and in no other region's list.
C2_AsStated ==
    pc = "done" =>
      \A i \in 1..Len(Flat) :
        (/\ IsSimple(Flat[i])
         /\ ~\E j \in (i + 1)..Len(Flat) : Declares(Flat[j], Flat[i].loc.stored))
        => /\ Count(Flat[i].name, returned[Flat[i].loc.stored].sections) = 1
           /\ \A r \in DOMAIN returned \ {Flat[i].loc.stored} :
                Count(Flat[i].name, returned[r].sections) = 0

\* C2 (amended): the same for every such section definition whose name no
\* other placed section definition bears; and each region's list of the
\* returned table holds the names in the order of their section definitions
\* in the document, across all SECTIONS stanzas.
C2_SimplePlacement ==
    pc = "done" =>
      /\ \A i \in 1..Len(Flat) :
           (/\ IsSimple(Flat[i])
            /\ ~\E j \in (i + 1)..Len(Flat) : Declares(Flat[j], Flat[i].loc.stored)
            /\ ~\E h \in 1..Len(Flat) :
                  h # i /\ IsPlaced(Flat[h]) /\ Flat[h].name = Flat[i].name)
           => /\ Count(Flat[i].name, returned[Flat[i].loc.stored].sections) = 1
              /\ \A r \in DOMAIN returned \ {Flat[i].loc.stored} :
                   Count(Flat[i].name, returned[r].sections) = 0
      /\ \A r \in DOMAIN returned :
           returned[r].sections
             = PlacedIn(Flat, LastDeclared(Flat, Len(Flat), r) + 1, Len(Flat), r)

\* Two simple placements into one region, of different sections, came back.
C2_Witness ==
    /\ pc = "done"
    /\ \E i, j \in 1..Len(Flat) :
         /\ i < j
         /\ IsSimple(Flat[i]) /\ IsSimple(Flat[j])
         /\ Flat[i].loc.stored = Flat[j].loc.stored
         /\ Flat[i].name # Flat[j].name
         /\ returned[Flat[i].loc.stored].sections = <<Flat[i].name, Flat[j].name>>

\* C3 (as stated): a load-at placement with both regions declared has the
\* section's name in both regions' lists of the returned table.
C3_AsStated ==
    pc = "done" =>
      \A i \in 1..Len(Flat) :
        IsLoadAt(Flat[i])
        => /\ Count(Flat[i].name, returned[Flat[i].loc.stored].sections) >= 1
           /\ Count(Flat[i].name, returned[Flat[i].loc.used].sections) >= 1

\* Handling a load-at placement whose regions are both in the table appends
\* the name once to each of the two lists and changes nothing else.
C3_LoadAtStep ==
    (/\ AtElement
     /\ IsLoadAt(Current)
     /\ Current.loc.stored \in DOMAIN memory_spaces
     /\ Current.loc.used \in DOMAIN memory_spaces)
    => LET s == Current.loc.stored
           u == Current.loc.used
           n == Current.name
       IN  /\ pc' = "reduce"
           /\ DOMAIN memory_spaces' = DOMAIN memory_spaces
           /\ \A r \in DOMAIN memory_spaces :
                /\ memory_spaces'[r].size = memory_spaces[r].size
                /\ memory_spaces'[r].sections =
                     memory_spaces[r].sections
                       \o (IF r = s THEN <<n>> ELSE <<>>)
                       \o (IF r = u THEN <<n>> ELSE <<>>)

\* A load-at placement none of whose regions is declared again afterwards has
\* left the name in both lists of the returned table.
C3_LoadAtReturned ==
    pc = "done" =>
      \A i \in 1..Len(Flat) :
        (/\ IsLoadAt(Flat[i])
         /\ ~\E j \in (i + 1)..Len(Flat) :
               Declares(Flat[j], Flat[i].loc.stored) \/ Declares(Flat[j], Flat[i].loc.used))
        => LET twice == IF Flat[i].loc.stored = Flat[i].loc.used THEN 2 ELSE 1
           IN  /\ Count(Flat[i].name, returned[Flat[i].loc.stored].sections) >= twice
               /\ Count(Flat[i].name, returned[Flat[i].loc.used].sections) >= twice

\* C3 (amended): handling a load-at placement whose regions are both declared
\* appends the name once to the stored region's list and once to the used
\* region's list (twice to the one list when they are the same region); the
\* name is in both lists of the returned table when neither region is
\* declared again afterwards.
C3_LoadAt == [][C3_LoadAtStep]_vars /\ []C3_LoadAtReturned

\* A load-at placement between two different regions came back in both lists.
C3_Witness ==
    /\ pc = "done"
    /\ \E i \in 1..Len(Flat) :
         /\ IsLoadAt(Flat[i])
         /\ Flat[i].loc.stored # Flat[i].loc.used
         /\ Count(Flat[i].name, returned[Flat[i].loc.stored].sections) = 1
         /\ Count(Flat[i].name, returned[Flat[i].loc.used].sections) = 1

\* C4: right after a region is declared again its size is that of this latest
\* declaration and its list is empty, whatever was placed in it before; in
\* the returned table a region has the size of its last declaration and only
\* the placements handled after it.
C4_Redeclaration ==
    /\ (pc = "reduce" /\ Visited >= 1 /\ Flat[Visited].k = "spec")
       => /\ Flat[Visited].name \in DOMAIN memory_spaces
          /\ memory_spaces[Flat[Visited].name]
               = [size |-> DeclaredSize(Flat[Visited].length), sections |-> <<>>]
    /\ pc = "done"
       => \A r \in DOMAIN returned :
            LET last == LastDeclared(Flat, Len(Flat), r)
            IN  /\ last >= 1
                /\ returned[r] = [size |-> DeclaredSize(Flat[last].length),
                                  sections |-> PlacedIn(Flat, last + 1, Len(Flat), r)]

\* A region that held a section has just been declared again, with another size.
C4_Witness ==
    /\ pc = "reduce"
    /\ Visited >= 3
    /\ Flat[Visited].k = "spec"
    /\ \E i \in 1..(Visited - 1) :
         /\ Declares(Flat[i], Flat[Visited].name)
         /\ DeclaredSize(Flat[i].length) # DeclaredSize(Flat[Visited].length)
         /\ PlacedIn(Flat, i + 1, Visited - 1, Flat[Visited].name) # <<>>
    /\ memory_spaces[Flat[Visited].name].sections = <<>>

\* A placement that names a region missing from the table at that moment.
MissesRegion ==
    /\ AtElement
    /\ IsPlaced(Current)
    /\ \/ Current.loc.stored \notin DOMAIN memory_spaces
       \/ Current.loc.used # "" /\ Current.loc.used \notin DOMAIN memory_spaces

\* C5 (as stated): such a placement makes process() fail with
\* UnknownRegionError, and no table is returned.
C5_AsStated ==
    [][MissesRegion => (pc' = "raised" /\ raised' = "UnknownRegionError")]_vars

\* C5 (amended): such a placement makes process() fail with the KeyError of
\* the dict lookup, and no table is returned, not even a partial one: once
\* failed, process() takes no further step.
C5_UnknownRegion ==
    /\ [][MissesRegion => (pc' = "raised" /\ raised' = "KeyError")]_vars
    /\ [][pc = "raised" => FALSE]_vars
    /\ [](pc = "raised" => returned = EmptyDict)

\* A placement into a region declared only later has failed, after an
\* earlier placement had been recorded.
C5_Witness ==
    /\ pc = "raised"
    /\ raised = "KeyError"
    /\ \E r \in DOMAIN memory_spaces : memory_spaces[r].sections # <<>>
    /\ \E j \in (Visited + 2)..Len(Flat) :
         Declares(Flat[j], Flat[Visited + 1].loc.stored)

\* An element that is neither a region spec nor a placed section definition.
IsInert(e) == e.k = "other" \/ (e.k = "section" /\ ~e.loc.present)

\* C10: handling a top-level Entry, OutputFormat, OutputArch, Assignment or
\* Comment stanza, or inside SECTIONS a Provide, an assignment or a section
\* definition without a Location, leaves the region table as it was.
C10_Frame ==
    [][(AtElement /\ IsInert(Current))
         => (memory_spaces' = memory_spaces /\ pc' = "reduce")]_vars

\* An inert element has just been handled with a section recorded in the table.
C10_Witness ==
    /\ pc = "reduce"
    /\ Visited >= 3
    /\ IsInert(Flat[Visited])
    /\ \E r \in DOMAIN memory_spaces : memory_spaces[r].sections # <<>>


(***************************************************************************)
(* Claims about the LENGTH of a region spec (SpecSize).                    *)
(***************************************************************************)
\* The LENGTH text of the document's region spec.
Lit == text[1].specs[1].length

\* A 0x/0X-prefixed hexadecimal literal or a bare run of decimal digits.
IsNumber(s) ==
    \/ Len(s) >= 1 /\ AllIn(s, DecDigit)
    \/ Len(s) >= 3 /\ s[1] = "0" /\ s[2] \in {"x", "X"}
       /\ AllIn(SubSeq(s, 3, Len(s)), HexDigit)

\* Such a literal, optionally followed by a K or M suffix.
ValidLiteral(s) ==
    \/ IsNumber(s)
    \/ Len(s) >= 2 /\ s[Len(s)] \in {"K", "M"} /\ IsNumber(SubSeq(s, 1, Len(s) - 1))

LiteralValue(s) ==
    IF s[Len(s)] \in {"K", "M"}
    THEN DeclaredSize([amount |-> SubSeq(s, 1, Len(s) - 1), scale |-> s[Len(s)]])
    ELSE DeclaredSize([amount |-> s, scale |-> ""])

\* C1: a region spec whose LENGTH is a hexadecimal literal or a run of decimal
\* digits, with or without a K or M suffix, is recorded with the literal's
\* value times 1024 for K, 1024 * 1024 for M and 1 without suffix.
C1_AsStated ==
    ValidLiteral(Lit) =>
      /\ pc # "raised"
      /\ (pc \in {"reduce", "done"} /\ Visited >= 1)
         => /\ "RAM" \in DOMAIN memory_spaces
            /\ memory_spaces["RAM"].size = LiteralValue(Lit)

\* C8 (as stated): a LENGTH text that is no valid literal makes process()
\* fail with InvalidNumericLiteralError, a failure of its own kind.
C8_AsStated ==
    (~ValidLiteral(Lit) /\ pc # "start")
    => (pc = "raised" /\ raised = "InvalidNumericLiteralError")

\* C8 (amended): a LENGTH text that is no valid literal, in a region spec
\* followed by another region spec or by the closing brace, makes process()
\* fail while parsing, with the syntax error of the grammar and before any
\* region is recorded; no table is returned.
C8_MalformedLength ==
    (~ValidLiteral(Lit) /\ pc # "start")
    => /\ pc = "raised"
       /\ raised = "TextXSyntaxError"
       /\ model = <<>>
       /\ memory_spaces = EmptyDict
       /\ returned = EmptyDict

\* A LENGTH of digits followed by a letter that is no scale was rejected.
C8_Witness ==
    /\ pc = "raised"
    /\ Len(Lit) = 2
    /\ Lit[1] = "1"
    /\ Lit[2] = "Q"

(***************************************************************************)
(* The end-to-end scenario (SpecE2E).                                      *)
(***************************************************************************)
\* The document exactly as the specification writes it.
E2EAsWritten == text = E2EDoc(0, 0, TailAsWritten, 0)

\* The same regions and sections with a statement in each body and the
\* load-at placement in the grammar's form, an ENTRY stanza anywhere or not.
E2EInGrammar == \E t \in TailLoadAt : \E p \in 0..5 : text = E2EDoc(1, 1, t, p)

\* C6 (as stated): for the end-to-end document process() returns FLASH of
\* 524288 with sections text, data and RAM of 131072 with section data.
C6_AsStated ==
    (E2EAsWritten /\ pc \in {"done", "raised"})
    => /\ pc = "done"
       /\ returned = [FLASH |-> [size |-> 524288, sections |-> <<"text", "data">>],
                      RAM |-> [size |-> 131072, sections |-> <<"data">>]]

\* C6 (amended): with a statement in each body and the load-at placement
\* written used AT > stored, process() does not fail and returns FLASH of
\* 524288 with sections .text, .data and RAM of 131072 with section .data,
\* and nothing else; written as in the specification the document fails to
\* parse and nothing is returned.
C6_EndToEnd ==
    /\ E2EInGrammar
       => /\ pc # "raised"
          /\ pc = "done"
             => returned = [FLASH |-> [size |-> 524288, sections |-> <<".text", ".data">>],
                            RAM |-> [size |-> 131072, sections |-> <<".data">>]]
    /\ (E2EAsWritten /\ pc # "start")
       => (pc = "raised" /\ raised = "TextXSyntaxError" /\ returned = EmptyDict)

C6_Witness ==
    /\ text = E2EDoc(1, 1, <<">", "RAM", "AT", ">", "FLASH">>, 0)
    /\ pc = "done"
    /\ DOMAIN returned = {"FLASH", "RAM"}

(***************************************************************************)
(* Claims about the reporting stage (SpecReport).                          *)
(***************************************************************************)
\* The size the tool reported for a section, 0 when it reported none.
Reported(n) ==
    LET at == {i \in 1..Len(output.lines) :
                 output.lines[i].form = "section" /\ output.lines[i].name = n}
    IN  IF at = {} THEN 0 ELSE output.lines[CHOOSE i \in at : \A j \in at : j <= i].size

\* The sum over every entry of a sections list: each name as often as listed.
UsageOf(region) ==
    Count(".text", region.sections) * Reported(".text")
    + Count(".build-id", region.sections) * Reported(".build-id")

NamesOf(seq) == [i \in 1..Len(seq) |-> seq[i].name]

\* C7: every printed region shows, as its usage, the sum over all entries of
\* its sections list (a name listed twice counted twice, an unreported name
\* counted as 0) of the sizes the tool reported, against the region's size.
C7_AsStated ==
    rpc = "done" =>
      \A i \in 1..Len(printed) :
        \E j \in 1..Len(config) :
          /\ config[j].name = printed[i].name
          /\ printed[i].value = UsageOf(config[j])
          /\ printed[i].total = config[j].size

\* The usage total the program computed for a region of the configuration.
TotalOf(region) == RegionTotal(region.sections, entries)

\* C9: with --show-all the report has one line for every region of the
\* configuration, unused ones included; without it, exactly the regions
\* whose usage total is not 0.
C9_AsStated ==
    rpc = "done" =>
      NamesOf(printed) =
        NamesOf(SelectSeq(config, LAMBDA c : show_all \/ TotalOf(c) # 0))

====
